---- MODULE Spec2Model ----
(***************************************************************************)
(* Model of src/huffman_coding.py: class HuffmanCoding.                    *)
(* One behaviour is one run of encode() on a text followed by one run of   *)
(* decode() (by a fresh HuffmanCoding object) on the file encode() wrote,  *)
(* optionally after the file lost its last two bytes.                      *)
(* Python strings of '0'/'1' are sequences of the integers 0 and 1, bytes  *)
(* objects are sequences of integers 0..255, a text is a sequence of       *)
(* one-character strings, a dict is a function.                            *)
(***************************************************************************)
EXTENDS Integers, Sequences, FiniteSets, TLC

VARIABLES pc, err, text, heap, merges, huffman_tree, codes, reverse_mapping,
          encoded_text, encoded_padded_text, eptext_bytes, pickled, file,
          truncated, d_tree_size, d_huffman_tree, d_codes, d_reverse_mapping,
          d_encoded_padded_text, d_encoded_text, d_text, out

vars == <<pc, err, text, heap, merges, huffman_tree, codes, reverse_mapping,
          encoded_text, encoded_padded_text, eptext_bytes, pickled, file,
          truncated, d_tree_size, d_huffman_tree, d_codes, d_reverse_mapping,
          d_encoded_padded_text, d_encoded_text, d_text, out>>

(* ---------------------------- bounds ----------------------------------- *)
MaxTextLen == 6

Alphabet == {"a", "b", "c", "d"}

Texts == UNION {[1..n -> Alphabet] : n \in 0..MaxTextLen}

(* ------------------------- program constants --------------------------- *)
ByteBits == 8

SizeBits == 32

PickleProto == 128

PickleVersion == 5

PickleStop == 46

TagLeaf == 76

TagInternal == 73

Ord == [c \in Alphabet |->
          CASE c = "a" -> 97 [] c = "b" -> 98 [] c = "c" -> 99 [] OTHER -> 100]

Chr(n) == CHOOSE c \in Alphabet : Ord[c] = n

EmptyDict == [x \in {} |-> <<>>]

NoTree == [kind |-> "none"]

Min(a, b) == IF a < b THEN a ELSE b

(* ------------------------------ nodes ---------------------------------- *)
HeapLeafNode(char, freq) == [kind |-> "leaf", char |-> char, freq |-> freq]

HeapInternalNode(freq, left_node, right_node) ==
  [kind |-> "internal", freq |-> freq, left |-> left_node, right |-> right_node]

\* a plausible slip: comparison reversed, the heap becomes a max-heap
LtReversed(a, b) == a.freq > b.freq

Lt(a, b) == a.freq < b.freq

(* ------------------------------ heapq ---------------------------------- *)
\* positions are Python's 0-based list positions; heap[pos + 1] is list[pos]
RECURSIVE siftdown_loop(_, _, _, _)
siftdown_loop(h, startpos, pos, newitem) ==
  IF pos > startpos
  THEN LET parentpos == (pos - 1) \div 2
           parent == h[parentpos + 1]
       IN IF Lt(newitem, parent)
          THEN siftdown_loop([h EXCEPT ![pos + 1] = parent], startpos, parentpos, newitem)
          ELSE [h EXCEPT ![pos + 1] = newitem]
  ELSE [h EXCEPT ![pos + 1] = newitem]

siftdown(h, startpos, pos) == siftdown_loop(h, startpos, pos, h[pos + 1])

RECURSIVE siftup_loop(_, _, _)
siftup_loop(h, pos, newitem) ==
  LET endpos == Len(h)
      leftpos == 2 * pos + 1
      rightpos == leftpos + 1
      childpos == IF rightpos < endpos /\ ~Lt(h[leftpos + 1], h[rightpos + 1])
                  THEN rightpos ELSE leftpos
  IN IF leftpos < endpos
     THEN siftup_loop([h EXCEPT ![pos + 1] = h[childpos + 1]], childpos, newitem)
     ELSE siftdown_loop(h, 0, pos, newitem)

siftup(h, pos) == siftup_loop(h, pos, h[pos + 1])

heappush(h, item) == siftdown(Append(h, item), 0, Len(h))

\* heappop of a non-empty list: the popped item and the list left behind
heappop(h) ==
  LET lastelt == h[Len(h)]
      rest == SubSeq(h, 1, Len(h) - 1)
  IN IF rest # <<>>
     THEN [item |-> rest[1], heap |-> siftup([rest EXCEPT ![1] = lastelt], 0)]
     ELSE [item |-> lastelt, heap |-> rest]

(* ----------------------------- make_tree ------------------------------- *)
\* Counter(text).keys(): the distinct characters in order of first occurrence
RECURSIVE CounterKeys(_)
CounterKeys(t) ==
  IF t = <<>> THEN <<>>
  ELSE LET front == SubSeq(t, 1, Len(t) - 1)
           k == CounterKeys(front)
       IN IF \E i \in 1..Len(front) : front[i] = t[Len(t)]
          THEN k ELSE Append(k, t[Len(t)])

\* Counter(text)[key]
Count(t, key) == Cardinality({i \in 1..Len(t) : t[i] = key})

RECURSIVE push_all(_, _, _)
push_all(h, keys, t) ==
  IF keys = <<>> THEN h
  ELSE push_all(heappush(h, HeapLeafNode(keys[1], Count(t, keys[1]))), Tail(keys), t)

make_heap(h, t) == push_all(h, CounterKeys(t), t)

\* a plausible slip: the children are stored the other way round
MergedSwapped(left, right) == HeapInternalNode(right.freq + left.freq, right, left)

\* a plausible slip: the weight of the merged node forgets the left child
MergedNoSum(left, right) == HeapInternalNode(right.freq, left, right)

Merged(left, right) == HeapInternalNode(right.freq + left.freq, left, right)

\* one iteration of the while loop of merge_nodes
merge_once(h) ==
  LET p1 == heappop(h)
      p2 == heappop(p1.heap)
  IN heappush(p2.heap, Merged(p1.item, p2.item))

(* ----------------------------- make_codes ------------------------------ *)
\* a plausible slip: both branches extend the code with '0'
RECURSIVE helperSameBit(_, _)
helperSameBit(node, curr_code) ==
  IF node.kind = "internal"
  THEN helperSameBit(node.left, Append(curr_code, 0)) \o helperSameBit(node.right, Append(curr_code, 0))
  ELSE IF node.kind = "leaf" THEN << <<node.char, curr_code>> >> ELSE <<>>

\* the (char, code) assignments in the order helper makes them
RECURSIVE helper(_, _)
helper(node, curr_code) ==
  IF node.kind = "internal"
  THEN helper(node.left, Append(curr_code, 0)) \o helper(node.right, Append(curr_code, 1))
  ELSE IF node.kind = "leaf" THEN << <<node.char, curr_code>> >> ELSE <<>>

\* a dict after the assignments d[p[k]] = p[v] made in order (last one wins)
DictOf(pairs, k, v) ==
  [key \in {pairs[i][k] : i \in 1..Len(pairs)} |->
     LET last == CHOOSE i \in 1..Len(pairs) :
                   /\ pairs[i][k] = key
                   /\ \A j \in (i + 1)..Len(pairs) : pairs[j][k] # key
     IN pairs[last][v]]

make_codes_codes(tree) == DictOf(helper(tree, <<>>), 1, 2)

make_codes_reverse(tree) == DictOf(helper(tree, <<>>), 2, 1)

(* ------------------------ number <-> bit string ------------------------ *)
RECURSIVE Digits(_)
Digits(n) == IF n < 2 THEN <<n>> ELSE Append(Digits(n \div 2), n % 2)

Zeros(n) == [i \in 1..n |-> 0]

\* f"{n:0{w}b}": binary digits, left-filled with '0' to at least w characters
FormatBin(n, w) ==
  LET d == Digits(n) IN IF Len(d) >= w THEN d ELSE Zeros(w - Len(d)) \o d

\* int(s, 2) of a non-empty string of binary digits
RECURSIVE IntBin(_)
IntBin(s) == IF s = <<>> THEN 0 ELSE 2 * IntBin(SubSeq(s, 1, Len(s) - 1)) + s[Len(s)]

\* [f(s[index:index+8]) for index in range(0, len(s), 8)] with f = int(., 2)
RECURSIVE BytesOfBits(_)
BytesOfBits(s) ==
  IF s = <<>> THEN <<>>
  ELSE <<IntBin(SubSeq(s, 1, Min(ByteBits, Len(s))))>> \o BytesOfBits(SubSeq(s, ByteBits + 1, Len(s)))

\* ''.join(f"{byte:08b}" for byte in bs)
RECURSIVE BitsOfBytes(_)
BitsOfBytes(bs) ==
  IF bs = <<>> THEN <<>> ELSE FormatBin(bs[1], ByteBits) \o BitsOfBytes(Tail(bs))

(* ----------------------------- encode_text ----------------------------- *)
\* a plausible slip: no padding when the length is already a multiple of 8
PadNeededMod(n) == (ByteBits - (n % ByteBits)) % ByteBits

PadNeeded(n) == ByteBits - (n % ByteBits)

pad(enc) == FormatBin(PadNeeded(Len(enc)), ByteBits) \o enc \o Zeros(PadNeeded(Len(enc)))

RECURSIVE JoinCodes(_, _)
JoinCodes(cs, t) == IF t = <<>> THEN <<>> ELSE cs[t[1]] \o JoinCodes(cs, Tail(t))

(* ---------------------------- decode_eptext ---------------------------- *)
\* s[8 : -1 * pad_info]; Python reads s[8:-0] as s[8:0], the empty string
unpad(s) ==
  LET pad_info == IntBin(SubSeq(s, 1, ByteBits))
      stop == IF pad_info = 0 THEN 0
              ELSE IF Len(s) - pad_info < 0 THEN 0 ELSE Len(s) - pad_info
  IN SubSeq(s, ByteBits + 1, stop)

RECURSIVE decode_loop(_, _, _, _)
decode_loop(bits, rm, curr_code, decoded) ==
  IF bits = <<>> THEN decoded
  ELSE LET c == Append(curr_code, bits[1])
       IN IF c \in DOMAIN rm
          THEN decode_loop(Tail(bits), rm, <<>>, Append(decoded, rm[c]))
          ELSE decode_loop(Tail(bits), rm, c, decoded)

decode_text(bits, rm) == decode_loop(bits, rm, <<>>, <<>>)

(* ------------------------------- pickle -------------------------------- *)
\* pickle.dumps / pickle.loads of the node graph, as a pre-order byte
\* stream: protocol header, one tagged record per node, STOP
RECURSIVE dump_node(_)
dump_node(node) ==
  IF node.kind = "internal"
  THEN <<TagInternal, node.freq>> \o dump_node(node.left) \o dump_node(node.right)
  ELSE <<TagLeaf, Ord[node.char], node.freq>>

dumps(node) == <<PickleProto, PickleVersion>> \o dump_node(node) \o <<PickleStop>>

LoadFail == [ok |-> FALSE, node |-> NoTree, next |-> 0]

RECURSIVE load_node(_, _)
load_node(b, pos) ==
  IF pos > Len(b) THEN LoadFail
  ELSE IF b[pos] = TagLeaf
  THEN IF pos + 2 > Len(b) \/ ~(\E c \in Alphabet : Ord[c] = b[pos + 1])
       THEN LoadFail
       ELSE [ok |-> TRUE, node |-> HeapLeafNode(Chr(b[pos + 1]), b[pos + 2]), next |-> pos + 3]
  ELSE IF b[pos] = TagInternal
  THEN IF pos + 1 > Len(b) THEN LoadFail
       ELSE LET l == load_node(b, pos + 2)
            IN IF ~l.ok THEN LoadFail
               ELSE LET r == load_node(b, l.next)
                    IN IF ~r.ok THEN LoadFail
                       ELSE [ok |-> TRUE,
                             node |-> HeapInternalNode(b[pos + 1], l.node, r.node),
                             next |-> r.next]
  ELSE LoadFail

\* pickle.loads stops at STOP and ignores what follows it
loads(b) ==
  IF Len(b) < 2 \/ b[1] # PickleProto \/ b[2] # PickleVersion THEN LoadFail
  ELSE LET r == load_node(b, 3)
       IN IF r.ok /\ r.next <= Len(b) /\ b[r.next] = PickleStop THEN r ELSE LoadFail

(* ------------------------ create_compressed_file ----------------------- *)
\* a plausible slip: the four bytes of the length are written low byte first
SizeBytesLittle(size) ==
  LET s == FormatBin(size, SizeBits)
  IN [i \in 1..(SizeBits \div ByteBits) |->
        IntBin(SubSeq(s, SizeBits - ByteBits * i + 1, SizeBits - ByteBits * (i - 1)))]

\* [int(size_bin_str[index: index+8], 2) for index in range(0, 32, 8)]
SizeBytes(size) ==
  LET s == FormatBin(size, SizeBits)
  IN [i \in 1..(SizeBits \div ByteBits) |->
        IntBin(SubSeq(s, ByteBits * (i - 1) + 1, Min(ByteBits * i, Len(s))))]

\* cfhandle.read(n) at offset off (0-based): at most n bytes, fewer at EOF
Read(f, off, n) == SubSeq(f, off + 1, Min(off + n, Len(f)))

(* ------------------------------ the runs ------------------------------- *)
Init ==
  /\ pc = "start"
  /\ err = "none"
  /\ text \in Texts
  /\ heap = <<>>
  /\ merges = 0
  /\ huffman_tree = NoTree
  /\ codes = EmptyDict
  /\ reverse_mapping = EmptyDict
  /\ encoded_text = <<>>
  /\ encoded_padded_text = <<>>
  /\ eptext_bytes = <<>>
  /\ pickled = <<>>
  /\ file = <<>>
  /\ truncated = FALSE
  /\ d_tree_size = 0
  /\ d_huffman_tree = NoTree
  /\ d_codes = EmptyDict
  /\ d_reverse_mapping = EmptyDict
  /\ d_encoded_padded_text = <<>>
  /\ d_encoded_text = <<>>
  /\ d_text = <<>>
  /\ out = <<"nofile">>

encVars == <<text, heap, merges, huffman_tree, codes, reverse_mapping,
             encoded_text, encoded_padded_text, eptext_bytes, pickled>>

decVars == <<d_tree_size, d_huffman_tree, d_codes, d_reverse_mapping,
             d_encoded_padded_text, d_encoded_text, d_text, out>>

\* make_tree, line 67: make_heap(self)
MakeHeap ==
  /\ pc = "start"
  /\ heap' = make_heap(heap, text)
  /\ pc' = "merge"
  /\ UNCHANGED <<err, text, merges, huffman_tree, codes, reverse_mapping,
                 encoded_text, encoded_padded_text, eptext_bytes, pickled,
                 file, truncated>>
  /\ UNCHANGED decVars

\* make_tree, lines 60-65: one iteration of the loop of merge_nodes
MergeStep ==
  /\ pc = "merge"
  /\ Len(heap) > 1
  /\ heap' = merge_once(heap)
  /\ merges' = merges + 1
  /\ UNCHANGED <<pc, err, text, huffman_tree, codes, reverse_mapping,
                 encoded_text, encoded_padded_text, eptext_bytes, pickled,
                 file, truncated>>
  /\ UNCHANGED decVars

\* make_tree, line 69: the loop is over, the root is popped
\* (heappop of an empty list raises IndexError)
PopRoot ==
  /\ pc = "merge"
  /\ ~(Len(heap) > 1)
  /\ IF heap = <<>>
     THEN /\ pc' = "error"
          /\ err' = "IndexError"
          /\ UNCHANGED <<heap, huffman_tree>>
     ELSE /\ pc' = "tree"
          /\ huffman_tree' = heappop(heap).item
          /\ heap' = heappop(heap).heap
          /\ UNCHANGED err
  /\ UNCHANGED <<text, merges, codes, reverse_mapping,
                 encoded_text, encoded_padded_text, eptext_bytes, pickled,
                 file, truncated>>
  /\ UNCHANGED decVars

\* encode, line 165: make_codes
MakeCodes ==
  /\ pc = "tree"
  /\ codes' = make_codes_codes(huffman_tree)
  /\ reverse_mapping' = make_codes_reverse(huffman_tree)
  /\ pc' = "codes"
  /\ UNCHANGED <<err, text, heap, merges, huffman_tree,
                 encoded_text, encoded_padded_text, eptext_bytes, pickled,
                 file, truncated>>
  /\ UNCHANGED decVars

\* encode, line 166: encode_text
EncodeText ==
  /\ pc = "codes"
  /\ encoded_text' = JoinCodes(codes, text)
  /\ encoded_padded_text' = pad(encoded_text')
  /\ eptext_bytes' = BytesOfBits(encoded_padded_text')
  /\ pc' = "encoded"
  /\ UNCHANGED <<err, text, heap, merges, huffman_tree, codes, reverse_mapping,
                 pickled, file, truncated>>
  /\ UNCHANGED decVars

\* encode, line 167: create_compressed_file
CreateCompressedFile ==
  /\ pc = "encoded"
  /\ pickled' = dumps(huffman_tree)
  /\ file' = SizeBytes(Len(pickled')) \o pickled' \o eptext_bytes
  /\ pc' = "written"
  /\ UNCHANGED <<err, text, heap, merges, huffman_tree, codes, reverse_mapping,
                 encoded_text, encoded_padded_text, eptext_bytes, truncated>>
  /\ UNCHANGED decVars

\* the environment: the compressed file loses its last two bytes
Truncate ==
  /\ pc = "written"
  /\ ~truncated
  /\ truncated' = TRUE
  /\ file' = SubSeq(file, 1, Len(file) - 2)
  /\ UNCHANGED <<pc, err>>
  /\ UNCHANGED encVars
  /\ UNCHANGED decVars

\* decode, line 170: read_compressed_file
\* (int('', 2) raises ValueError, pickle.loads raises on a broken blob)
ReadCompressedFile ==
  /\ pc = "written"
  /\ LET size_field == Read(file, 0, 4)
         tree_size == IntBin(BitsOfBytes(size_field))
         pickled_tree == Read(file, Len(size_field), tree_size)
         rest == SubSeq(file, Len(size_field) + Len(pickled_tree) + 1, Len(file))
     IN IF size_field = <<>>
        THEN /\ pc' = "error"
             /\ err' = "ValueError"
             /\ UNCHANGED <<d_tree_size, d_huffman_tree, d_encoded_padded_text>>
        ELSE IF ~loads(pickled_tree).ok
        THEN /\ pc' = "error"
             /\ err' = "UnpicklingError"
             /\ d_tree_size' = tree_size
             /\ UNCHANGED <<d_huffman_tree, d_encoded_padded_text>>
        ELSE /\ pc' = "read"
             /\ d_tree_size' = tree_size
             /\ d_huffman_tree' = loads(pickled_tree).node
             /\ d_encoded_padded_text' = BitsOfBytes(rest)
             /\ UNCHANGED err
  /\ UNCHANGED <<file, truncated, d_codes, d_reverse_mapping, d_encoded_text, d_text, out>>
  /\ UNCHANGED encVars

\* decode, line 171: make_codes on the tree read from the file
MakeCodesDecode ==
  /\ pc = "read"
  /\ d_codes' = make_codes_codes(d_huffman_tree)
  /\ d_reverse_mapping' = make_codes_reverse(d_huffman_tree)
  /\ pc' = "dcodes"
  /\ UNCHANGED <<err, file, truncated, d_tree_size, d_huffman_tree,
                 d_encoded_padded_text, d_encoded_text, d_text, out>>
  /\ UNCHANGED encVars

\* decode, line 172: decode_eptext (int('', 2) raises ValueError)
DecodeEptext ==
  /\ pc = "dcodes"
  /\ IF d_encoded_padded_text = <<>>
     THEN /\ pc' = "error"
          /\ err' = "ValueError"
          /\ UNCHANGED <<d_encoded_text, d_text>>
     ELSE /\ pc' = "decoded"
          /\ d_encoded_text' = unpad(d_encoded_padded_text)
          /\ d_text' = decode_text(d_encoded_text', d_reverse_mapping)
          /\ UNCHANGED err
  /\ UNCHANGED <<file, truncated, d_tree_size, d_huffman_tree, d_codes,
                 d_reverse_mapping, d_encoded_padded_text, out>>
  /\ UNCHANGED encVars

\* decode, line 173: create_uncompressed_file
CreateUncompressedFile ==
  /\ pc = "decoded"
  /\ out' = <<"file", d_text>>
  /\ pc' = "done"
  /\ UNCHANGED <<err, file, truncated, d_tree_size, d_huffman_tree, d_codes,
                 d_reverse_mapping, d_encoded_padded_text, d_encoded_text, d_text>>
  /\ UNCHANGED encVars

Next ==
  \/ MakeHeap
  \/ MergeStep
  \/ PopRoot
  \/ MakeCodes
  \/ EncodeText
  \/ CreateCompressedFile
  \/ Truncate
  \/ ReadCompressedFile
  \/ MakeCodesDecode
  \/ DecodeEptext
  \/ CreateUncompressedFile

Spec == Init /\ [][Next]_vars

(* ======================= properties of the runs ======================== *)
Distinct(t) == {t[i] : i \in 1..Len(t)}


IsProperPrefix(p, q) == Len(p) < Len(q) /\ SubSeq(q, 1, Len(p)) = p

RECURSIVE LeafChars(_)
LeafChars(node) ==
  IF node.kind = "internal" THEN LeafChars(node.left) \o LeafChars(node.right)
  ELSE IF node.kind = "leaf" THEN <<node.char>> ELSE <<>>

CodesMade == pc \in {"codes", "encoded", "written", "read", "dcodes", "decoded", "done"}

TextEncoded == pc \in {"encoded", "written", "read", "dcodes", "decoded", "done"}

\* the value of the 8 bits s[from .. from+7], most significant bit first
ByteAt(s, from) ==
  128 * s[from] + 64 * s[from + 1] + 32 * s[from + 2] + 16 * s[from + 3]
  + 8 * s[from + 4] + 4 * s[from + 5] + 2 * s[from + 6] + s[from + 7]

(* C1: round trip. Whenever encode and then decode of the intact file have   *)
(* both run to the end, the text written by decode equals the text encoded.  *)
(* Stated for every non-empty text, one-symbol texts included.               *)
C1_RoundTrip ==
  (pc = "done" /\ ~truncated /\ text # <<>>) => out = <<"file", text>>

(* C2: malformed container rejection. When the compressed file has lost its  *)
(* last two bytes, decode never gets past decode_eptext normally and never   *)
(* writes an output text: it ends in an error.                               *)
C2_TruncationRejected ==
  truncated => (pc \notin {"decoded", "done"} /\ out = <<"nofile">>)

(* C3: single-symbol alphabet. When the tree is a single leaf, the code      *)
(* given to its symbol is not empty, so encode_text emits at least one bit   *)
(* per occurrence of the symbol.                                             *)
C3_SingleLeafCodeNonEmpty ==
  (CodesMade /\ huffman_tree.kind = "leaf") =>
     /\ \A c \in DOMAIN codes : Len(codes[c]) >= 1
     /\ TextEncoded => Len(encoded_text) >= Len(text)

(* C4: padding. When encode_text returns, the first 8 bits of the padded     *)
(* string hold pad = 8 - (len(B) mod 8), which lies in 1..8 (8 when len(B)   *)
(* is a multiple of 8); the padded string is those 8 bits, B, then pad zero  *)
(* bits, its length 8 + len(B) + pad is a multiple of 8; and when            *)
(* decode_eptext returns on the intact file, unpad has given back exactly B. *)
C4_PaddingCorrect ==
  /\ pc = "encoded" =>
       LET B == encoded_text
           s == encoded_padded_text
           padv == ByteAt(s, 1)
       IN /\ Len(s) >= 8
          /\ padv = 8 - (Len(B) % 8)
          /\ padv \in 1..8
          /\ (Len(B) % 8 = 0) => padv = 8
          /\ Len(s) = 8 + Len(B) + padv
          /\ Len(s) % 8 = 0
          /\ SubSeq(s, 9, 8 + Len(B)) = B
          /\ \A i \in (9 + Len(B))..Len(s) : s[i] = 0
          /\ Len(eptext_bytes) * 8 = Len(s)
  /\ (pc = "decoded" /\ ~truncated) => d_encoded_text = encoded_text

C4_Witness ==
  /\ pc = "decoded"
  /\ ~truncated
  /\ Len(encoded_text) = 8
  /\ ByteAt(encoded_padded_text, 1) = 8
  /\ d_encoded_text = encoded_text

(* C5: prefix-free codes. When make_codes returns for a non-empty text, no   *)
(* symbol's code is a proper prefix of another symbol's code, the forward    *)
(* map is defined exactly on the symbols of the text, and the forward and    *)
(* reverse maps are inverses.                                                *)
C5_PrefixFree ==
  (pc = "codes" /\ text # <<>>) =>
     /\ DOMAIN codes = Distinct(text)
     /\ \A a, b \in DOMAIN codes : a # b => ~IsProperPrefix(codes[a], codes[b])
     /\ \A a \in DOMAIN codes :
          codes[a] \in DOMAIN reverse_mapping /\ reverse_mapping[codes[a]] = a
     /\ \A k \in DOMAIN reverse_mapping :
          reverse_mapping[k] \in DOMAIN codes /\ codes[reverse_mapping[k]] = k

C5_Witness ==
  /\ pc = "codes"
  /\ Cardinality(DOMAIN codes) = 4
  /\ \E a \in DOMAIN codes : Len(codes[a]) = 3
  /\ \E a \in DOMAIN codes : Len(codes[a]) = 1

(* C6: empty input. encode of the empty text never fails by popping from an  *)
(* empty heap.                                                               *)
C6_EmptyInputHandled ==
  (text = <<>>) => ~(pc = "error" /\ err = "IndexError")

SizeProbes == {0, 1, 255, 256, 257, 65535, 65536, 16777215, 16777216, 2147483647}

(* C7: container round trip. The file is the 4-byte big-endian length N of   *)
(* the tree blob, the blob, then the payload; reading the intact file gives  *)
(* back N, a tree with the same code assignments, and the payload bytes      *)
(* expanded to bits most significant bit first. The length field is also     *)
(* tried on lengths that need more than one byte.                            *)
C7_ContainerRoundTrip ==
  /\ (pc = "written" /\ ~truncated) =>
       /\ Len(file) = 4 + Len(pickled) + Len(eptext_bytes)
       /\ 16777216 * file[1] + 65536 * file[2] + 256 * file[3] + file[4] = Len(pickled)
       /\ SubSeq(file, 5, 4 + Len(pickled)) = pickled
       /\ SubSeq(file, 5 + Len(pickled), Len(file)) = eptext_bytes
  /\ (pc = "read" /\ ~truncated) =>
       /\ d_tree_size = Len(pickled)
       /\ Len(d_encoded_padded_text) = 8 * Len(eptext_bytes)
       /\ \A i \in 1..Len(eptext_bytes) :
            ByteAt(d_encoded_padded_text, 8 * (i - 1) + 1) = eptext_bytes[i]
  /\ (pc = "dcodes" /\ ~truncated) =>
       d_codes = codes /\ d_reverse_mapping = reverse_mapping
  /\ (pc = "written" /\ ~truncated) =>
       \A n \in SizeProbes \cup {Len(pickled)} :
          LET b == SizeBytes(n)
          IN /\ Len(b) = 4
             /\ \A i \in 1..4 : b[i] \in 0..255
             /\ 16777216 * b[1] + 65536 * b[2] + 256 * b[3] + b[4] = n
             /\ IntBin(BitsOfBytes(b)) = n

C7_Witness ==
  /\ pc = "dcodes"
  /\ ~truncated
  /\ Cardinality(DOMAIN d_codes) = 4
  /\ d_tree_size = Len(pickled)
  /\ Len(eptext_bytes) = 3

\* the sum over the symbols keys[i] of 2^(maxlen - lens[keys[i]])
RECURSIVE KraftSum(_, _, _)
KraftSum(keys, lens, maxlen) ==
  IF keys = <<>> THEN 0 ELSE 2 ^ (maxlen - lens[keys[1]]) + KraftSum(Tail(keys), lens, maxlen)

\* Kraft: lengths l are the code lengths of some prefix-free binary code
\* exactly when the sum of 2^-l[c] is at most 1
Kraft(keys, lens, maxlen) == KraftSum(keys, lens, maxlen) <= 2 ^ maxlen

\* the bits needed when symbol keys[i] occurs cnt[keys[i]] times and takes
\* lens[keys[i]] bits
RECURSIVE Cost(_, _, _)
Cost(keys, cnt, lens) ==
  IF keys = <<>> THEN 0 ELSE cnt[keys[1]] * lens[keys[1]] + Cost(Tail(keys), cnt, lens)

BitStrings(maxlen) == UNION {[1..n -> {0, 1}] : n \in 1..maxlen}

(* C8: optimality. For a text with at least two distinct symbols, no         *)
(* prefix-free binary code for its symbols gives a smaller total bit length  *)
(* (sum of frequency times code length) than the code built; and a symbol    *)
(* with a strictly higher frequency never has a strictly longer code.        *)
(* The competing codes are all length assignments up to the alphabet size    *)
(* that satisfy Kraft's inequality, and, for texts that do not use the whole *)
(* alphabet, all assignments of bit strings of up to n - 1 bits to their n   *)
(* symbols (a code with a longer string is never the cheapest).              *)
C8_Optimal ==
  (pc = "codes" /\ Cardinality(Distinct(text)) >= 2) =>
     LET S == Distinct(text)
         keys == CounterKeys(text)
         cnt == [c \in S |-> Cardinality({i \in 1..Len(text) : text[i] = c})]
         n == Cardinality(Alphabet)
         mine == Cost(keys, cnt, [c \in S |-> Len(codes[c])])
     IN /\ Len(keys) = Cardinality(S)
        /\ \A lens \in [S -> 1..n] : Kraft(keys, lens, n) => mine <= Cost(keys, cnt, lens)
        /\ Cardinality(S) < n =>
             \A other \in [S -> BitStrings(Cardinality(S) - 1)] :
                (\A a, b \in S : a # b => other[a] # other[b] /\ ~IsProperPrefix(other[a], other[b]))
                   => mine <= Cost(keys, cnt, [c \in S |-> Len(other[c])])
        /\ \A a, b \in S : cnt[a] > cnt[b] => Len(codes[a]) <= Len(codes[b])

C8_Witness ==
  /\ pc = "codes"
  /\ Cardinality(DOMAIN codes) = 4
  /\ \E a, b \in DOMAIN codes : Count(text, a) > Count(text, b) /\ Len(codes[a]) < Len(codes[b])

RECURSIVE ShapeOk(_, _)
ShapeOk(node, t) ==
  IF node.kind = "internal"
  THEN /\ DOMAIN node = {"kind", "freq", "left", "right"}
       /\ node.left.kind \in {"leaf", "internal"}
       /\ node.right.kind \in {"leaf", "internal"}
       /\ node.freq = node.left.freq + node.right.freq
       /\ node.left.freq <= node.right.freq
       /\ ShapeOk(node.left, t)
       /\ ShapeOk(node.right, t)
  ELSE /\ node.kind = "leaf"
       /\ node.freq >= 1
       /\ node.freq = Cardinality({i \in 1..Len(t) : t[i] = node.char})

(* C9: tree shape. In the tree make_tree returns for a non-empty text every  *)
(* internal node has two children, a weight equal to the sum of theirs and   *)
(* a left child no heavier than the right one; every leaf weighs the number  *)
(* of occurrences of its symbol (at least 1); and there is exactly one leaf  *)
(* per distinct symbol of the text.                                          *)
C9_TreeShape ==
  (pc = "tree" /\ text # <<>>) =>
     /\ ShapeOk(huffman_tree, text)
     /\ Len(LeafChars(huffman_tree)) = Cardinality(Distinct(text))
     /\ Distinct(LeafChars(huffman_tree)) = Distinct(text)

C9_Witness ==
  /\ pc = "tree"
  /\ huffman_tree.kind = "internal"
  /\ huffman_tree.left.kind = "leaf"
  /\ huffman_tree.right.kind = "internal"
  /\ huffman_tree.right.left.freq < huffman_tree.right.right.freq
  /\ huffman_tree.freq = huffman_tree.left.freq + huffman_tree.right.freq
  /\ Len(LeafChars(huffman_tree)) = 4

RECURSIVE WeightSum(_)
WeightSum(h) == IF h = <<>> THEN 0 ELSE h[1].freq + WeightSum(Tail(h))

(* C10: merge loop. For a non-empty text with n distinct symbols: every      *)
(* iteration of the loop takes one node off the heap and keeps the sum of    *)
(* the weights in it; the loop is left with exactly one node in the heap,    *)
(* which becomes the root; and once make_tree is over, n - 1 merges were     *)
(* made, the root weighs the length of the text and the heap is empty.       *)
C10_MergeLoop ==
  /\ [][(merges' = merges + 1) =>
          /\ Len(heap') = Len(heap) - 1
          /\ WeightSum(heap') = WeightSum(heap)]_vars
  /\ [][(pc = "merge" /\ pc' = "tree") =>
          /\ Len(heap) = 1
          /\ huffman_tree' = heap[1]]_vars
  /\ []((pc = "tree" /\ text # <<>>) =>
          /\ merges = Cardinality(Distinct(text)) - 1
          /\ huffman_tree.freq = Len(text)
          /\ heap = <<>>)

C10_Witness ==
  /\ pc = "tree"
  /\ merges = 3
  /\ heap = <<>>
  /\ huffman_tree.freq = Len(text)

====
